---- MODULE Spec2Model ----
(***************************************************************************)
(* Authentication / authorization core of the Flask blog application:      *)
(* token issuance (login, refresh), the JWT guard (jwt_required and        *)
(* admin_required), the token blocklist with its TTL index, user deletion  *)
(* with the user_deleted listener, and the error responses; beside it the  *)
(* create_post route, create_app's database connection loop and the        *)
(* EventDispatcher.                                                        *)
(* Time is counted in minutes since an arbitrary epoch (UTC).              *)
(***************************************************************************)
EXTENDS Integers, Sequences, FiniteSets, Bags, TLC

VARIABLES
    tz,        \* server timezone offset from UTC, minutes (fixed per process)
    now,       \* current UTC time, minutes
    users,     \* users collection: id -> [exists, role, password_hash]
    tokens,    \* every validly signed token so far; jti = index
    blocklist, \* token_blocklist collection: set of [jti, expires_at]
    deleting,  \* User.delete() calls about to insert: bag of [user, jti]
    lastSave,  \* the listener's TokenBlocklist.save() just made, until logged
    resp,      \* the HTTP request just handled and its response, until sent
    hist,      \* history: one earlier event (its kind, the token's jti), if tracked
    posts,     \* posts collection: bag of the stored posts' slugs
    creating,  \* create_post requests in flight: request -> its position
    boot,      \* create_app's database connection loop
    listeners, \* EventDispatcher._listeners: event type -> list of listeners
    calls      \* the last EventDispatcher.dispatch call and what it did

\* the variables of the components beside the authentication core
compVars == <<posts, creating, boot, listeners, calls>>

vars == <<tz, now, users, tokens, blocklist, deleting, lastSave, resp, hist,
          posts, creating, boot, listeners, calls>>

----------------------------------------------------------------------------
(* Bounds of the model *)

MaxTokens == 3
MaxDeleting == 2
MaxTime == 15
TickStep == 15

(* Program constants *)

AccessTTL == 15
RefreshTTL == 10080

TzOffsets == {0 - 60, 0, 60}

UserIds == {"u1"}
\* role = db.StringField(default='user', choices=['user', 'editor', 'admin'])
Roles == {"user", "editor", "admin"}
\* the roles the model's user starts with
InitRoles == {"user", "admin"}
Passwords == {"Secret123!", "NewSecret456!"}
WeakPassword == "weak"

\* what can go wrong with a MongoDB query during a request: nothing, a
\* ServerSelectionTimeoutError, another ConnectionFailure, or any other
\* exception
Faults == {"none", "timeout", "connfail", "error"}

----------------------------------------------------------------------------
(* Credential store: src/models/user.py *)

\* a hash that maps every password to the same value
generate_password_hash_const(pw) == <<"bcrypt", "x">>

\* bcrypt.generate_password_hash(password): a one-way hash, never the plaintext
generate_password_hash(pw) == <<"bcrypt", pw>>

\* User.check_password
check_password(u, pw) == users[u].password_hash = generate_password_hash(pw)

\* User.objects(...).first() finds the user
UserFound(u) == users[u].exists

----------------------------------------------------------------------------
(* Roles claim values.  A claim is [k, v]: k = "absent" (no claim),        *)
(* "list" (v = sequence of role strings), "str" (v = the characters of a   *)
(* bare string), "num" (a JSON number).                                    *)

NoRoles == [k |-> "absent", v |-> <<>>]
RoleList(r) == [k |-> "list", v |-> <<r>>]
StrClaim(cs) == [k |-> "str", v |-> cs]
NumClaim == [k |-> "num", v |-> <<>>]

AdminChars == <<"a", "d", "m", "i", "n">>
UserChars == <<"u", "s", "e", "r">>
SuperAdminChars == <<"s", "u", "p", "e", "r">> \o AdminChars

\* roles claims of tokens signed with the server's key by
\* create_access_token(identity, additional_claims=...)
CraftedClaims ==
    { NoRoles, RoleList("user"),
      StrClaim(UserChars), StrClaim(AdminChars), StrClaim(SuperAdminChars),
      NumClaim }

\* Python: needle in haystack, for two strings (substring test)
IsSubstring(needle, hay) ==
    \E o \in 0..(Len(hay) - Len(needle)) :
        SubSeq(hay, o + 1, o + Len(needle)) = needle

\* a check that only looks for a non-admin role, letting a token without
\* roles through
AdminCheck_absentallows(claim) ==
    CASE claim.k = "absent" -> "allow"
      [] claim.k = "list" ->
            IF \E i \in 1..Len(claim.v) : claim.v[i] = "admin"
            THEN "allow" ELSE "forbid"
      [] claim.k = "str" ->
            IF IsSubstring(AdminChars, claim.v) THEN "allow" ELSE "forbid"
      [] OTHER -> "typeerror"

\* Python: "roles" not in claims or "admin" not in claims["roles"]
\* result: "allow", "forbid", or "typeerror" (argument is not iterable)
AdminCheck(claim) ==
    CASE claim.k = "absent" -> "forbid"
      [] claim.k = "list" ->
            IF \E i \in 1..Len(claim.v) : claim.v[i] = "admin"
            THEN "allow" ELSE "forbid"
      [] claim.k = "str" ->
            IF IsSubstring(AdminChars, claim.v) THEN "allow" ELSE "forbid"
      [] OTHER -> "typeerror"

----------------------------------------------------------------------------
(* Token codec *)

\* a login that issues its access token without the roles claim
LoginAccessToken_noroles(u) ==
    [sub |-> u, kind |-> "access", roles |-> NoRoles,
     exp |-> now + AccessTTL, by |-> "login",
     urole |-> users[u].role]

\* create_access_token(identity, additional_claims={"roles": [user.role]})
LoginAccessToken(u) ==
    [sub |-> u, kind |-> "access", roles |-> RoleList(users[u].role),
     exp |-> now + AccessTTL, by |-> "login",
     urole |-> users[u].role]

\* create_refresh_token(identity)
LoginRefreshToken(u) ==
    [sub |-> u, kind |-> "refresh", roles |-> NoRoles,
     exp |-> now + RefreshTTL, by |-> "login",
     urole |-> users[u].role]

\* refresh(): create_access_token(identity=current_user_id)
RefreshAccessToken(u) ==
    [sub |-> u, kind |-> "access", roles |-> NoRoles,
     exp |-> now + AccessTTL, by |-> "refresh",
     urole |-> IF users[u].exists THEN users[u].role ELSE "none"]

----------------------------------------------------------------------------
(* Revocation store: src/models/token_blocklist.py, src/server.py *)

\* datetime.datetime.fromtimestamp(exp): naive local wall-clock time, which
\* the driver stores as if it were UTC
fromtimestamp(exp) == exp + tz

Revoked(jti) == \E e \in blocklist : e.jti = jti

\* a callback that swallows the query's exception and reports "not revoked"
check_if_token_revoked_failopen(jti, f) ==
    IF f = "none" /\ Revoked(jti) THEN "revoked" ELSE "clear"

\* check_if_token_revoked: TokenBlocklist.objects(jti=jti).first() is not None;
\* the query raises when the server cannot be reached (fault f)
check_if_token_revoked(jti, f) ==
    IF f # "none" THEN f
    ELSE IF Revoked(jti) THEN "revoked" ELSE "clear"

\* the TTL index {'fields': ['expires_at'], 'expireAfterSeconds': 0}
Purgeable(e) == e.expires_at <= now

----------------------------------------------------------------------------
(* Credentials a request can carry *)

\* no request context
NoRequest == [t |-> "noreq", j |-> 0, roles |-> NoRoles, name |-> "", pw |-> ""]
\* request without a token
NoToken == [t |-> "none", j |-> 0, roles |-> NoRoles, name |-> "", pw |-> ""]
\* tampered / malformed
BadToken == [t |-> "bad", j |-> 0, roles |-> NoRoles, name |-> "", pw |-> ""]
\* a token issued by login or refresh (jti = j)
Tok(j) == [t |-> "tok", j |-> j, roles |-> tokens[j].roles, name |-> "", pw |-> ""]
\* a fresh, unexpired, never revoked access token with crafted claims
Crafted(c) == [t |-> "crafted", j |-> 0, roles |-> c, name |-> "", pw |-> ""]
\* the username and password of a login request
UserPass(name, pw) ==
    [t |-> "password", j |-> 0, roles |-> NoRoles, name |-> name, pw |-> pw]

IssuedCreds == {Tok(j) : j \in 1..Len(tokens)}
RequestCreds == {NoToken, BadToken} \cup IssuedCreds

\* a guard that does not compare the token's type with the route's
GuardVerdict_anykind(cred, refresh, f) ==
    CASE cred.t = "noreq" -> "noreq"
      [] cred.t = "none" -> "missing"
      [] cred.t = "bad" -> "invalid"
      [] cred.t = "crafted" ->
           LET r == check_if_token_revoked(cred.j, f) IN
           IF r = "clear" THEN "pass" ELSE r
      [] OTHER ->
           LET t == tokens[cred.j] IN
           IF now >= t.exp THEN "expired"
           ELSE LET r == check_if_token_revoked(cred.j, f) IN
                IF r = "clear" THEN "pass" ELSE r

\* a guard that does not look at the token's expiry
GuardVerdict_noexpiry(cred, refresh, f) ==
    CASE cred.t = "noreq" -> "noreq"
      [] cred.t = "none" -> "missing"
      [] cred.t = "bad" -> "invalid"
      [] cred.t = "crafted" ->
           IF refresh THEN "wrongtype"
           ELSE LET r == check_if_token_revoked(cred.j, f) IN
                IF r = "clear" THEN "pass" ELSE r
      [] OTHER ->
           LET t == tokens[cred.j] IN
           IF (t.kind = "refresh") # refresh THEN "wrongtype"
           ELSE LET r == check_if_token_revoked(cred.j, f) IN
                IF r = "clear" THEN "pass" ELSE r

\* flask_jwt_extended _decode_jwt_from_request: decode (signature, expiry),
\* token type, blocklist callback, in that order
GuardVerdict(cred, refresh, f) ==
    CASE cred.t = "noreq" -> "noreq"
      [] cred.t = "none" -> "missing"
      [] cred.t = "bad" -> "invalid"
      [] cred.t = "crafted" ->
           IF refresh THEN "wrongtype"
           ELSE LET r == check_if_token_revoked(cred.j, f) IN
                IF r = "clear" THEN "pass" ELSE r
      [] OTHER ->
           LET t == tokens[cred.j] IN
           IF now >= t.exp THEN "expired"
           ELSE IF (t.kind = "refresh") # refresh THEN "wrongtype"
           ELSE LET r == check_if_token_revoked(cred.j, f) IN
                IF r = "clear" THEN "pass" ELSE r

----------------------------------------------------------------------------
(* Error responder: src/exceptions.py, src/server.py *)

Body(status, code, msg) == [status |-> status, code |-> code, msg |-> msg]

Unauthorized(msg) == Body(401, "UNAUTHORIZED", msg)
Forbidden(msg) == Body(403, "FORBIDDEN", msg)
BadRequest(msg) == Body(400, "BAD_REQUEST", msg)
\* a central handler that puts the exception's text into the response
InternalError_leaky ==
    Body(500, "INTERNAL_SERVER_ERROR", "Simulating a database error")

InternalError == Body(500, "INTERNAL_SERVER_ERROR", "An unexpected error occurred.")
DatabaseError == Body(500, "DATABASE_ERROR", "Database connection error")
ServiceUnavailable ==
    Body(503, "SERVICE_UNAVAILABLE",
         "Service temporarily unavailable, please try again later.")
Ok(msg) == Body(200, "", msg)
Created == Body(201, "", "Post created successfully")
NotFound(msg) == Body(404, "NOT_FOUND", msg)
Conflict(msg) == Body(409, "CONFLICT", msg)

\* errorhandler(ServerSelectionTimeoutError) / errorhandler(ConnectionFailure)
\* / errorhandler(Exception): the most specific handler answers
StoreError(f) ==
    CASE f = "timeout" -> ServiceUnavailable
      [] f = "connfail" -> DatabaseError
      [] OTHER -> InternalError

\* a responder whose unauthorized_loader answers a missing credential 403
GuardError_missing403(verdict) ==
    CASE verdict = "missing" -> Forbidden("Missing or invalid token.")
      [] verdict = "invalid" ->
           Unauthorized("Signature verification failed or token is malformed.")
      [] verdict = "wrongtype" ->
           Unauthorized("Signature verification failed or token is malformed.")
      [] verdict = "expired" -> Body(401, "", "Token has expired")
      [] verdict = "revoked" -> Unauthorized("Token has been revoked.")
      [] OTHER -> StoreError(verdict)

\* errorhandler(NotUniqueError): handle_not_unique_error builds its answer
\* with ConflictException, a name server.py never imports; the NameError
\* leaves the handler and the request ends in Flask's handle_exception,
\* where errorhandler(Exception) answers
handle_not_unique_error == InternalError

\* the response for a request the guard stopped
GuardError(verdict) ==
    CASE verdict = "missing" -> Unauthorized("Missing or invalid token.")
      [] verdict = "invalid" ->
           Unauthorized("Signature verification failed or token is malformed.")
      [] verdict = "wrongtype" ->
           Unauthorized("Signature verification failed or token is malformed.")
      [] verdict = "expired" -> Body(401, "", "Token has expired")
      [] verdict = "revoked" -> Unauthorized("Token has been revoked.")
      [] OTHER -> StoreError(verdict)

----------------------------------------------------------------------------
(* State bookkeeping *)

\* a handled request: the route, the credential it carried, the store fault
\* met while handling it, the guard's verdict, the response, and whether
\* the route's handler ran
Resp(route, cred, f, guard, body, ran) ==
    [route |-> route, cred |-> cred, fault |-> f, guard |-> guard,
     status |-> body.status, code |-> body.code, msg |-> body.msg, ran |-> ran]

NoResp == Resp("none", NoRequest, "none", "none", Body(0, "", ""), FALSE)

NoSave == [dup |-> FALSE, result |-> "none"]

\* nothing is on its way out: the server takes its next step
Ready == resp = NoResp /\ lastSave = NoSave

\* the store faults a request with this credential can meet in the guard:
\* the store is only consulted for a token that decodes, has not expired
\* and is of the kind the route takes
FaultsFor(cred, refresh, FS) ==
    IF cred.t = "tok" /\ GuardVerdict(cred, refresh, "none") \in {"pass", "revoked"}
    THEN FS ELSE {"none"}

\* History of one event of a behaviour: a blocklist entry written for a jti
\* ("written"), a successful logout ("loggedOut") or password change
\* ("pwChanged") authenticated by the token jti.  Which event of a behaviour
\* is kept is open: every event is the tracked one in some behaviour.
\* A password change is kept with the new password it set (pw).
NoEvent == [ev |-> "none", jti |-> 0, pw |-> ""]
TrackPw(ev, jti, pw) ==
    IF hist = NoEvent THEN {hist, [ev |-> ev, jti |-> jti, pw |-> pw]} ELSE {hist}
Track(ev, jti) == TrackPw(ev, jti, "")
Happened(ev, jti) == hist.ev = ev /\ hist.jti = jti

\* User.delete() has returned for user u
DeleteDone(u) == ~users[u].exists /\ ~\E d \in BagToSet(deleting) : d.user = u

----------------------------------------------------------------------------
(* create_app's database connection loop: src/server.py *)

MAX_DB_RETRIES == 5

\* what one pass through the try block can do: db.init_app and
\* bcrypt.init_app return, or one of them raises
InitAppOutcomes == {"ok", "ConnectionFailure", "ServerSelectionTimeoutError",
                    "Exception"}

\* the outcomes the loop retries after
Retryable == {"ConnectionFailure", "ServerSelectionTimeoutError"}

\* pc: "loop" inside the for loop, "after" behind it, "returned" / "raised"
\* once create_app has ended; log: the outcome of every attempt so far;
\* store_up: whether the MongoDB server could be reached during the last
\* attempt
BootStart ==
    [pc |-> "loop", log |-> <<>>, db_connected |-> FALSE, store_up |-> TRUE]

----------------------------------------------------------------------------
(* EventDispatcher: src/events.py *)

MaxRegistrations == 3

\* Event and one of its subclasses
EventTypes == {"Event", "UserLoggedInEvent"}

\* the callables registered as listeners: a function that returns, a
\* function that raises, and a raising callable without __name__ (a
\* functools.partial, an instance with __call__, a Mock)
ListenerIds == {"returns", "raises", "raises_unnamed"}
Raises(l) == l \in {"raises", "raises_unnamed"}
HasName(l) == l # "raises_unnamed"

\* no dispatch yet
NoDispatch ==
    [type |-> "none", registry |-> [t \in EventTypes |-> <<>>],
     called |-> <<>>, propagated |-> FALSE]

\* the loop of dispatch over the list ls from position k on: the listener
\* is called inside try; the except block prints "... to listener
\* {listener.__name__}: {e}" and the loop goes on, unless reading __name__
\* raises AttributeError, which leaves dispatch
RECURSIVE CallListeners(_, _, _)
CallListeners(ls, k, called) ==
    IF k > Len(ls)
    THEN [called |-> called, propagated |-> FALSE]
    ELSE IF Raises(ls[k]) /\ ~HasName(ls[k])
    THEN [called |-> Append(called, ls[k]), propagated |-> TRUE]
    ELSE CallListeners(ls, k + 1, Append(called, ls[k]))

----------------------------------------------------------------------------
(* create_post: src/routes/admin_routes.py *)

Requests == {1, 2}

\* titles as sequences of characters; the empty title fails validation
Titles == { <<"A", " ", "b">>, <<"a", "!", "B">>, <<"b">>, <<>> }

Lower(c) == CASE c = "A" -> "a" [] c = "B" -> "b" [] OTHER -> c
IsAlnum(c) == Lower(c) \in {"a", "b"}

\* slugify(title): lower case, every run of other characters becomes one
\* hyphen, no hyphen at either end
RECURSIVE slugifyFrom(_, _, _)
slugifyFrom(t, k, out) ==
    IF k > Len(t) THEN out
    ELSE IF IsAlnum(t[k]) THEN slugifyFrom(t, k + 1, Append(out, Lower(t[k])))
    ELSE IF /\ out # <<>>
            /\ out[Len(out)] # "-"
            /\ \E m \in (k + 1)..Len(t) : IsAlnum(t[m])
    THEN slugifyFrom(t, k + 1, Append(out, "-"))
    ELSE slugifyFrom(t, k + 1, out)

slugify(t) == slugifyFrom(t, 1, <<>>)

\* a create_post request: pc is "idle", "checked" (the slug lookup found no
\* post, the save is still to come) or "done" (answered); dup tells that
\* the request met a post with its slug, at the lookup or at the save
PostRequest(pc, slug, dup, body) ==
    [pc |-> pc, slug |-> slug, dup |-> dup,
     status |-> body.status, code |-> body.code]

Idle == PostRequest("idle", <<>>, FALSE, Body(0, "", ""))

Init ==
    /\ tz \in TzOffsets
    /\ now = 0
    /\ users \in [UserIds ->
                   [exists : {TRUE}, role : InitRoles,
                    password_hash : {generate_password_hash("Secret123!")}]]
    /\ tokens = <<>>
    /\ blocklist = {}
    /\ deleting = EmptyBag
    /\ lastSave = NoSave
    /\ resp = NoResp
    /\ hist = NoEvent
    /\ posts = EmptyBag
    /\ creating = [r \in Requests |-> Idle]
    /\ boot = BootStart
    /\ listeners = [t \in EventTypes |-> <<>>]
    /\ calls = NoDispatch

----------------------------------------------------------------------------
(* Environment *)

\* the response is sent, the listener's log line is written
Deliver ==
    /\ ~Ready
    /\ resp' = NoResp
    /\ lastSave' = NoSave
    /\ UNCHANGED <<compVars, tz, now, users, tokens, blocklist, deleting, hist>>

\* the clock advances
Tick ==
    /\ Ready
    /\ now + TickStep <= MaxTime
    /\ now' = now + TickStep
    /\ UNCHANGED <<compVars, tz, users, tokens, blocklist, deleting, lastSave, resp, hist>>

\* the TTL monitor removes a document whose expires_at has passed
Purge ==
    /\ Ready
    /\ \E e \in blocklist :
         /\ Purgeable(e)
         /\ blocklist' = blocklist \ {e}
    /\ UNCHANGED <<compVars, tz, now, users, tokens, deleting, lastSave, resp, hist>>

\* an operator changes a user's stored role (user.role = r; user.save());
\* no route of the application does it
SetRole ==
    /\ Ready
    /\ \E u \in UserIds, r \in InitRoles :
         /\ UserFound(u)
         /\ users[u].role # r
         /\ users' = [users EXCEPT ![u].role = r]
    /\ UNCHANGED <<compVars, tz, now, tokens, blocklist, deleting, lastSave, resp, hist>>

----------------------------------------------------------------------------
(* Routes: src/routes/auth_routes.py, src/routes/admin_routes.py.          *)
(* FS is the set of store faults the environment may produce.              *)

\* a login that tells an unknown username from a wrong password
LoginFailure_revealing(name) ==
    IF name \in UserIds /\ UserFound(name)
    THEN Unauthorized("Invalid password")
    ELSE Body(404, "NOT_FOUND", "User not found")

\* login(): the response when no user has the name, or the password is wrong
LoginFailure(name) == Unauthorized("Invalid username or password")

\* POST /api/auth/login
Login(FS) ==
    /\ Ready
    /\ \/ \* not data.get('username') or not data.get('password')
          /\ resp' = Resp("login", NoToken, "none", "none",
                          BadRequest("Username and password are required"), FALSE)
          /\ UNCHANGED tokens
       \/ \E f \in FS \ {"none"} :
          /\ resp' = Resp("login", NoToken, f, "none", StoreError(f), FALSE)
          /\ UNCHANGED tokens
       \/ \E name \in UserIds \cup {"ghost"}, pw \in Passwords :
          /\ "none" \in FS
          /\ IF name \in UserIds /\ UserFound(name) /\ check_password(name, pw)
             THEN \* the model follows the tokens of the first logins only
                  /\ tokens' =
                        IF Len(tokens) + 2 <= MaxTokens
                        THEN tokens \o
                               <<LoginAccessToken(name), LoginRefreshToken(name)>>
                        ELSE tokens
                  /\ resp' = Resp("login", UserPass(name, pw), "none", "none",
                                  Ok("Login successful"), TRUE)
             ELSE /\ resp' = Resp("login", UserPass(name, pw), "none", "none",
                                  LoginFailure(name), FALSE)
                  /\ UNCHANGED tokens
    /\ UNCHANGED <<compVars, tz, now, users, blocklist, deleting, lastSave, hist>>

\* POST /api/auth/logout, behind jwt_required()
Logout(FS) ==
    \E cred \in RequestCreds : \E f \in FaultsFor(cred, FALSE, FS) :
      LET v == GuardVerdict(cred, FALSE, f) IN
      /\ Ready
      /\ IF v = "pass"
         THEN /\ resp' = Resp("logout", cred, f, v, Ok("Logged out successfully"), TRUE)
              /\ hist' \in Track("loggedOut", cred.j)
         ELSE /\ resp' = Resp("logout", cred, f, v, GuardError(v), FALSE)
              /\ UNCHANGED hist
      /\ UNCHANGED <<compVars, tz, now, users, tokens, blocklist, deleting, lastSave>>

\* POST /api/auth/refresh, behind jwt_required(refresh=True)
Refresh(FS) ==
    \E cred \in RequestCreds : \E f \in FaultsFor(cred, TRUE, FS) :
      LET v == GuardVerdict(cred, TRUE, f) IN
      /\ Ready
      /\ IF v = "pass"
         THEN /\ Len(tokens) < MaxTokens
              /\ tokens' = Append(tokens, RefreshAccessToken(tokens[cred.j].sub))
              /\ resp' = Resp("refresh", cred, f, v, Ok("Token refreshed"), TRUE)
         ELSE /\ resp' = Resp("refresh", cred, f, v, GuardError(v), FALSE)
              /\ UNCHANGED tokens
      /\ UNCHANGED <<compVars, tz, now, users, blocklist, deleting, lastSave, hist>>

\* a decorator that decides from the role stored for the token's subject
AdminResponse_fromstore(cred, f, v) ==
    LET a == IF cred.t = "tok"
             THEN AdminCheck(RoleList(users[tokens[cred.j].sub].role))
             ELSE AdminCheck(cred.roles) IN
    CASE a = "allow" -> Resp("admin", cred, f, v, Ok("posts"), TRUE)
      [] a = "forbid" ->
           Resp("admin", cred, f, v, Forbidden("Admin access required."), FALSE)
      [] OTHER -> Resp("admin", cred, f, v, InternalError, FALSE)

\* admin_required.decorated_function, after jwt_required() let the token in
AdminResponse(cred, f, v) ==
    LET a == AdminCheck(cred.roles) IN
    CASE a = "allow" -> Resp("admin", cred, f, v, Ok("posts"), TRUE)
      [] a = "forbid" ->
           Resp("admin", cred, f, v, Forbidden("Admin access required."), FALSE)
      [] OTHER -> Resp("admin", cred, f, v, InternalError, FALSE)

\* a decorator that looks at the roles claim before the token is verified
AdminRoute_rolefirst(FS) ==
    \E cred \in RequestCreds \cup {Crafted(c) : c \in CraftedClaims} :
      \E f \in FaultsFor(cred, FALSE, FS) :
        LET v == GuardVerdict(cred, FALSE, f) IN
        /\ Ready
        /\ resp' = IF v = "pass" \/ (cred.t = "tok" /\ AdminCheck(cred.roles) # "allow")
                   THEN AdminResponse(cred, f, v)
                   ELSE Resp("admin", cred, f, v, GuardError(v), FALSE)
        /\ UNCHANGED <<compVars, tz, now, users, tokens, blocklist, deleting, lastSave, hist>>

\* a route behind admin_required (GET /api/admin/posts)
AdminRoute(FS) ==
    \E cred \in RequestCreds \cup {Crafted(c) : c \in CraftedClaims} :
      \E f \in FaultsFor(cred, FALSE, FS) :
        LET v == GuardVerdict(cred, FALSE, f) IN
        /\ Ready
        /\ resp' = IF v = "pass" THEN AdminResponse(cred, f, v)
                   ELSE Resp("admin", cred, f, v, GuardError(v), FALSE)
        /\ UNCHANGED <<compVars, tz, now, users, tokens, blocklist, deleting, lastSave, hist>>

\* GET /api/auth/status, behind jwt_required(optional=True): a request
\* without a token is let in with no identity, every other guard failure is
\* answered as on a protected route
Status(FS) ==
    \E cred \in RequestCreds : \E f \in FaultsFor(cred, FALSE, FS) :
      LET v == GuardVerdict(cred, FALSE, f) IN
      /\ Ready
      /\ resp' =
           IF v = "missing"
           THEN Resp("status", cred, f, v, Ok("logged_in: false"), TRUE)
           ELSE IF v # "pass"
           THEN Resp("status", cred, f, v, GuardError(v), FALSE)
           ELSE IF UserFound(tokens[cred.j].sub)
           THEN Resp("status", cred, f, v, Ok("logged_in: true"), TRUE)
           ELSE Resp("status", cred, f, v, Ok("logged_in: false"), TRUE)
      /\ UNCHANGED <<compVars, tz, now, users, tokens, blocklist, deleting, lastSave, hist>>

\* a handler that stores the new password before it checks the current one
ChangePassword_savefirst(FS) ==
    \E cred \in RequestCreds : \E f \in FaultsFor(cred, FALSE, FS) :
      LET v == GuardVerdict(cred, FALSE, f) IN
      /\ Ready
      /\ IF v # "pass"
         THEN /\ resp' = Resp("change_password", cred, f, v, GuardError(v), FALSE)
              /\ UNCHANGED <<users, hist>>
         ELSE \E cur \in Passwords, new \in Passwords \cup {WeakPassword} :
              LET u == tokens[cred.j].sub IN
              IF new = WeakPassword
              THEN /\ resp' = Resp("change_password", cred, f, v,
                                   BadRequest("Invalid data"), TRUE)
                   /\ UNCHANGED <<users, hist>>
              ELSE /\ users' = [users EXCEPT
                                  ![u].password_hash = generate_password_hash(new)]
                   /\ IF ~UserFound(u) \/ ~check_password(u, cur)
                      THEN /\ resp' = Resp("change_password", cred, f, v,
                                   Unauthorized("Invalid current password"), TRUE)
                           /\ UNCHANGED hist
                      ELSE /\ resp' = Resp("change_password", cred, f, v,
                                   Ok("Password updated successfully"), TRUE)
                           /\ hist' \in TrackPw("pwChanged", cred.j, new)
      /\ UNCHANGED <<compVars, tz, now, tokens, blocklist, deleting, lastSave>>

\* POST /api/auth/change-password, behind jwt_required()
ChangePassword(FS) ==
    \E cred \in RequestCreds : \E f \in FaultsFor(cred, FALSE, FS) :
      LET v == GuardVerdict(cred, FALSE, f) IN
      /\ Ready
      /\ IF v # "pass"
         THEN /\ resp' = Resp("change_password", cred, f, v, GuardError(v), FALSE)
              /\ UNCHANGED <<users, hist>>
         ELSE \E cur \in Passwords, new \in Passwords \cup {WeakPassword} :
              LET u == tokens[cred.j].sub IN
              IF new = WeakPassword
              THEN \* ChangePasswordRequest fails validation
                   /\ resp' = Resp("change_password", cred, f, v,
                                   BadRequest("Invalid data"), TRUE)
                   /\ UNCHANGED <<users, hist>>
              ELSE IF ~UserFound(u) \/ ~check_password(u, cur)
              THEN /\ resp' = Resp("change_password", cred, f, v,
                                   Unauthorized("Invalid current password"), TRUE)
                   /\ UNCHANGED <<users, hist>>
              ELSE /\ users' = [users EXCEPT
                                  ![u].password_hash = generate_password_hash(new)]
                   /\ resp' = Resp("change_password", cred, f, v,
                                   Ok("Password updated successfully"), TRUE)
                   /\ hist' \in TrackPw("pwChanged", cred.j, new)
      /\ UNCHANGED <<compVars, tz, now, tokens, blocklist, deleting, lastSave>>

----------------------------------------------------------------------------
(* User.delete() and the user_deleted listener blacklist_user_tokens:      *)
(* src/models/user.py, src/listeners.py.  The listener's insert into the   *)
(* blocklist is a step of its own, so that the inserts of calls running in *)
(* different server workers interleave.                                    *)

\* what blacklist_user_tokens did when it found no usable token: "skipped"
\* is the warning branch (verify_jwt_in_request(optional=True) returned
\* None); "caught" an exception caught and logged by the listener (no
\* request in the application context, or a token the guard rejects);
\* "raised" an exception that left the listener: outside any application
\* context current_app.app_context() raises RuntimeError, and the except
\* block's own current_app.logger.error raises it again, up to the caller
\* of User.delete
ListenerOutcome(v, ctx) ==
    IF ~ctx THEN [dup |-> FALSE, result |-> "raised"]
    ELSE IF v = "missing" THEN [dup |-> FALSE, result |-> "skipped"]
    ELSE [dup |-> FALSE, result |-> "caught"]

\* super().delete() removes the user document, then user_deleted.send runs
\* blacklist_user_tokens up to the reading of jti and exp (exp is a function
\* of the jti, so the jti stands for both), or to its end when it finds no
\* usable token.  The caller holds the user object (loaded while the
\* document existed); the call runs inside a request with the credential
\* cred, or outside any request, then with an application context pushed
\* (ctx) or without one (a script, a test fixture's teardown).
DeleteUser(FS) ==
    \E u \in UserIds, cred \in {NoRequest, NoToken} \cup IssuedCreds :
      \E f \in FaultsFor(cred, FALSE, FS),
         ctx \in IF cred = NoRequest THEN BOOLEAN ELSE {TRUE} :
        LET v == GuardVerdict(cred, FALSE, f) IN
        /\ Ready
        /\ BagCardinality(deleting) < MaxDeleting
        /\ users' = [users EXCEPT ![u].exists = FALSE]
        /\ deleting' =
             IF v = "pass"
             THEN deleting (+) SetToBag({[user |-> u, jti |-> cred.j]})
             ELSE deleting
        /\ lastSave' = IF v = "pass" THEN lastSave ELSE ListenerOutcome(v, ctx)
        /\ UNCHANGED <<compVars, tz, now, tokens, blocklist, resp, hist>>

\* TokenBlocklist(jti=jti, expires_at=expires).save(): an insert under the
\* unique index on jti.  Result: "saved", "NotUniqueError" or "error".
SaveOutcome(jti, f) ==
    IF f # "none" THEN "error"
    ELSE IF Revoked(jti) THEN "NotUniqueError"
    ELSE "saved"

ListenerSave(FS) ==
    \E d \in BagToSet(deleting), f \in FS :
      LET r == SaveOutcome(d.jti, f) IN
      /\ Ready
      /\ blocklist' =
           IF r = "saved"
           THEN blocklist \cup
                  {[jti |-> d.jti, expires_at |-> fromtimestamp(tokens[d.jti].exp)]}
           ELSE blocklist
      /\ lastSave' = [dup |-> Revoked(d.jti), result |-> r]
      /\ hist' \in IF r = "saved" THEN Track("written", d.jti) ELSE {hist}
      /\ deleting' = deleting (-) SetToBag({d})
      /\ UNCHANGED <<compVars, tz, now, users, tokens, resp>>

----------------------------------------------------------------------------
(* create_app's database connection loop *)

\* one pass of "for i in range(MAX_DB_RETRIES)": the try block and the
\* except clause that matches.  db.init_app builds the client without
\* waiting for the server, so it can return while the server is unreachable;
\* up is the server's reachability during this pass.
ConnectAttempt ==
    /\ boot.pc = "loop"
    /\ \E up \in BOOLEAN, out \in InitAppOutcomes :
         LET log == Append(boot.log, out) IN
         boot' = [pc |-> IF out \in Retryable /\ Len(log) < MAX_DB_RETRIES
                         THEN "loop" ELSE "after",
                  log |-> log,
                  db_connected |-> (out = "ok"),
                  store_up |-> up]
    /\ UNCHANGED <<tz, now, users, tokens, blocklist, deleting, lastSave, resp,
                   hist, posts, creating, listeners, calls>>

\* behind the loop: "if not db_connected: raise ConnectionError", else
\* create_app goes on and returns the application
CreateAppEnd ==
    /\ boot.pc = "after"
    /\ boot' = [boot EXCEPT !.pc = IF boot.db_connected THEN "returned"
                                   ELSE "raised"]
    /\ UNCHANGED <<tz, now, users, tokens, blocklist, deleting, lastSave, resp,
                   hist, posts, creating, listeners, calls>>

NextBoot ==
    \/ ConnectAttempt
    \/ CreateAppEnd

SpecBoot == Init /\ [][NextBoot]_vars

----------------------------------------------------------------------------
(* EventDispatcher *)

\* EventDispatcher.listen
listen ==
    \E t \in EventTypes, l \in ListenerIds :
      /\ Len(listeners["Event"]) + Len(listeners["UserLoggedInEvent"])
             < MaxRegistrations
      /\ listeners' = [listeners EXCEPT ![t] = Append(@, l)]
      /\ UNCHANGED <<tz, now, users, tokens, blocklist, deleting, lastSave, resp,
                   hist, posts, creating, boot, calls>>

\* EventDispatcher.dispatch for an event whose type(event) is t
dispatch ==
    \E t \in EventTypes :
      LET r == CallListeners(listeners[t], 1, <<>>) IN
      /\ calls' = [type |-> t, registry |-> listeners,
                   called |-> r.called, propagated |-> r.propagated]
      /\ UNCHANGED <<tz, now, users, tokens, blocklist, deleting, lastSave, resp,
                   hist, posts, creating, boot, listeners>>

NextDispatch ==
    \/ listen
    \/ dispatch

SpecDispatch == Init /\ [][NextDispatch]_vars

----------------------------------------------------------------------------
(* POST /api/admin/posts *)

\* create_post up to the save: admin_required, the validation of the body,
\* the lookup of the slug, the lookup of the author
CreatePostBegin ==
    \E r \in Requests, cred \in RequestCreds, title \in Titles :
      LET v == GuardVerdict(cred, FALSE, "none")
          slug == slugify(title)
          a == AdminCheck(cred.roles)
          Done(dup, body) == PostRequest("done", slug, dup, body)
      IN
      /\ creating[r].pc = "idle"
      /\ creating' = [creating EXCEPT ![r] =
           IF v # "pass" THEN Done(FALSE, GuardError(v))
           ELSE IF a = "forbid" THEN Done(FALSE, Forbidden("Admin access required."))
           ELSE IF a # "allow" THEN Done(FALSE, InternalError)
           ELSE IF title = <<>> THEN Done(FALSE, BadRequest("Invalid post data"))
           ELSE IF BagIn(slug, posts)
                THEN Done(TRUE, Conflict("A post with this title already exists"))
           ELSE IF ~UserFound(tokens[cred.j].sub)
                THEN Done(FALSE, NotFound("Author not found."))
           ELSE PostRequest("checked", slug, FALSE, Body(0, "", ""))]
      /\ UNCHANGED <<tz, now, users, tokens, blocklist, deleting, lastSave, resp,
                   hist, posts, boot, listeners, calls>>

\* new_post.save(): an insert under the unique index on slug
SavePost ==
    \E r \in Requests :
      /\ creating[r].pc = "checked"
      /\ IF BagIn(creating[r].slug, posts)
         THEN \* NotUniqueError
              /\ creating' = [creating EXCEPT ![r] =
                    PostRequest("done", creating[r].slug, TRUE,
                                handle_not_unique_error)]
              /\ UNCHANGED posts
         ELSE /\ posts' = posts (+) SetToBag({creating[r].slug})
              /\ creating' = [creating EXCEPT ![r] =
                    PostRequest("done", creating[r].slug, FALSE, Created)]
      /\ UNCHANGED <<tz, now, users, tokens, blocklist, deleting, lastSave, resp,
                   hist, boot, listeners, calls>>

\* the response of a create_post request is sent
RespondPost ==
    \E r \in Requests :
      /\ creating[r].pc = "done"
      /\ creating' = [creating EXCEPT ![r] = Idle]
      /\ UNCHANGED <<tz, now, users, tokens, blocklist, deleting, lastSave, resp,
                   hist, posts, boot, listeners, calls>>

NextPosts ==
    \/ Deliver
    \/ Login({"none"})
    \/ CreatePostBegin
    \/ SavePost
    \/ RespondPost

SpecPosts == Init /\ [][NextPosts]_vars

----------------------------------------------------------------------------

Next ==
    \/ Deliver
    \/ Tick
    \/ Purge
    \/ Login(Faults)
    \/ Logout(Faults)
    \/ Refresh(Faults)
    \/ AdminRoute(Faults)
    \/ Status(Faults)
    \/ ChangePassword(Faults)
    \/ DeleteUser(Faults)
    \/ ListenerSave(Faults)

Spec == Init /\ [][Next]_vars

\* the same program while MongoDB stays reachable
NextStoreUp ==
    \/ Deliver
    \/ Tick
    \/ Purge
    \/ Login({"none"})
    \/ Logout({"none"})
    \/ Refresh({"none"})
    \/ AdminRoute({"none"})
    \/ Status({"none"})
    \/ ChangePassword({"none"})
    \/ DeleteUser({"none"})
    \/ ListenerSave({"none"})

SpecStoreUp == Init /\ [][NextStoreUp]_vars

\* operators change stored roles while tokens are issued, checked for
\* roles, revoked and expired; MongoDB stays reachable
NextRoleChange ==
    \/ Deliver
    \/ Tick
    \/ Purge
    \/ SetRole
    \/ Login({"none"})
    \/ Refresh({"none"})
    \/ AdminRoute({"none"})
    \/ DeleteUser({"none"})
    \/ ListenerSave({"none"})

SpecRoleChange == Init /\ [][NextRoleChange]_vars

----------------------------------------------------------------------------
(* Properties *)

Jtis == 1..Len(tokens)

\* the routes behind jwt_required() that take an access token
ProtectedRoutes == {"admin", "logout", "change_password"}

\* the response on hand answers a request that presented token j to a
\* route that takes tokens of j's kind
Presented(j, routes) ==
    /\ resp.cred.t = "tok"
    /\ resp.cred.j = j
    /\ IF tokens[j].kind = "refresh" THEN resp.route = "refresh"
       ELSE resp.route \in routes

Unexpired(j) == now < tokens[j].exp

\* C1: once a blocklist entry has been written for a token, every later
\* request presenting that token to a protected route, before the token
\* expires, is answered 401 "Token has been revoked." and the handler does
\* not run.
C1_RevokedTokenRejected ==
    \A j \in Jtis :
        (Happened("written", j) /\ Presented(j, ProtectedRoutes) /\ Unexpired(j))
        => /\ resp.status = 401
           /\ resp.msg = "Token has been revoked."
           /\ ~resp.ran

\* C2: after a successful logout, every later request to a protected route
\* with the access token that authenticated the logout is answered 401.
C2_LogoutRevokes ==
    \A j \in Jtis :
        (Happened("loggedOut", j) /\ Presented(j, {"admin", "change_password"}))
        => resp.status = 401

\* C3: after a successful password change, a request to a protected route
\* with the access token that authenticated the change is rejected.
C3_PasswordChangeRevokes ==
    \A j \in Jtis :
        (Happened("pwChanged", j) /\ Presented(j, {"admin", "logout"}))
        => resp.status >= 400 /\ ~resp.ran

\* C4: once User.delete() has returned for a user, every unexpired access
\* token issued to that user before is rejected by the guard.
C4_DeleteRevokesUserTokens ==
    \A j \in Jtis :
        ( /\ tokens[j].kind = "access"
          /\ tokens[j].by = "login"
          /\ DeleteDone(tokens[j].sub)
          /\ Presented(j, ProtectedRoutes)
          /\ Unexpired(j) )
        => resp.guard # "pass" /\ ~resp.ran

\* the guard reached the blocklist lookup for the presented token
LookupReached ==
    /\ resp.cred.t = "tok"
    /\ Unexpired(resp.cred.j)
    /\ (tokens[resp.cred.j].kind = "refresh") = (resp.route = "refresh")

\* C5: when the blocklist lookup for a presented token cannot be completed,
\* the request is denied with a server error (500 or 503) and the handler
\* does not run: the guard never lets such a request through.
C5_GuardFailsClosed ==
    (resp.fault # "none" /\ LookupReached)
    => /\ resp.status \in {500, 503}
       /\ resp.code \in {"DATABASE_ERROR", "SERVICE_UNAVAILABLE",
                        "INTERNAL_SERVER_ERROR"}
       /\ ~resp.ran

\* an admin's live access token was presented to an admin route while the
\* store timed out, and the request was answered 503
C5_Witness ==
    /\ resp.fault = "timeout"
    /\ LookupReached
    /\ resp.route = "admin"
    /\ AdminCheck(resp.cred.roles) = "allow"
    /\ resp.status = 503

\* C6: a token whose roles claim is present but not a list is answered 403
\* "Admin access required." by admin_required; it never passes as admin.
C6_NonListRolesForbidden ==
    ( /\ resp.route = "admin"
      /\ resp.guard = "pass"
      /\ resp.cred.roles.k \in {"str", "num"} )
    => /\ resp.status = 403
       /\ resp.msg = "Admin access required."
       /\ ~resp.ran

\* C7: every access token issued, by login or by refresh, carries the roles
\* claim [user.role] of the user it was issued to.
C7_AccessTokensCarryRole ==
    \A j \in Jtis :
        tokens[j].kind = "access" => tokens[j].roles = RoleList(tokens[j].urole)

\* the guard rejects token j as expired or revoked
Dead(j) ==
    GuardVerdict(Tok(j), tokens[j].kind = "refresh", "none")
        \in {"expired", "revoked"}

\* C8: a token the guard rejects as expired or revoked is never accepted by
\* the guard again, whatever happens to the blocklist (TTL purges included).
C8_LifecycleMonotone ==
    [][\A j \in Jtis : Dead(j) => Dead(j)']_vars

\* C9: a blocklist entry is never purgeable before its token expires: its
\* expires_at is not earlier than the token's exp, for every timezone offset.
C9_EntryOutlivesToken ==
    \A e \in blocklist : e.expires_at >= tokens[e.jti].exp

\* C10: writing a blocklist entry for a jti that already has one reports
\* success: no error is raised.
C10_DuplicateRevokeSucceeds ==
    lastSave.dup => lastSave.result = "saved"

\* C11: for every interleaving of two concurrent revocations of one jti
\* (two inserts in flight for it, or an insert made after the other call's
\* entry appeared), the insert succeeds and the blocklist then holds exactly
\* one entry for the jti.
C11_ConcurrentRevokesSucceed ==
    [][\A d \in BagToSet(deleting) :
         ( /\ deleting' = deleting (-) SetToBag({d})
           /\ CopiesIn(d, deleting) >= 2 \/ Revoked(d.jti) )
         => /\ lastSave'.result = "saved"
            /\ Cardinality({e \in blocklist' : e.jti = d.jti}) = 1]_vars

\* C12: the guard's checks run in the order signature, expiry, revocation,
\* role: an access token presented to an admin route is answered by the
\* earliest check it fails (expired before revoked, revoked before 403), and
\* the role check decides only for tokens that passed the first three.
C12_GuardOrder ==
    /\ (resp.route = "admin" /\ resp.cred.t = "bad")
       => resp.status = 401 /\ resp.guard = "invalid" /\ ~resp.ran
    /\ (resp.route = "admin" /\ resp.cred.t = "tok"
          /\ tokens[resp.cred.j].kind = "access")
       => IF ~Unexpired(resp.cred.j)
          THEN resp.status = 401 /\ resp.guard = "expired" /\ ~resp.ran
          ELSE IF resp.fault = "none" /\ Revoked(resp.cred.j)
          THEN /\ resp.status = 401
               /\ resp.msg = "Token has been revoked."
               /\ ~resp.ran
          ELSE IF resp.fault = "none"
          THEN /\ resp.guard = "pass"
               /\ resp.status = IF AdminCheck(resp.cred.roles) = "allow"
                                THEN 200 ELSE 403
          ELSE resp.status \in {500, 503}
    /\ (resp.route = "admin" /\ resp.status = 403)
       => /\ resp.guard = "pass"
          /\ resp.cred.t = "tok" => Unexpired(resp.cred.j) /\ ~Revoked(resp.cred.j)

\* a revoked, unexpired token without the admin role was presented to an
\* admin route and answered 401 revoked
C12_Witness ==
    /\ resp.route = "admin"
    /\ resp.cred.t = "tok"
    /\ Unexpired(resp.cred.j)
    /\ Revoked(resp.cred.j)
    /\ AdminCheck(resp.cred.roles) = "forbid"
    /\ resp.status = 401
    /\ resp.msg = "Token has been revoked."

\* C13: a valid, unexpired, unrevoked access token whose roles claim is
\* absent, or is a list without "admin", is answered 403 FORBIDDEN by a
\* route behind admin_required, and the route handler does not run.
C13_NonAdminForbidden ==
    ( /\ resp.route = "admin"
      /\ resp.guard = "pass"
      /\ \/ resp.cred.roles.k = "absent"
         \/ /\ resp.cred.roles.k = "list"
            /\ \A i \in 1..Len(resp.cred.roles.v) : resp.cred.roles.v[i] # "admin" )
    => /\ resp.status = 403
       /\ resp.code = "FORBIDDEN"
       /\ ~resp.ran

\* an issued token without a roles claim passed the guard and was answered 403
C13_Witness ==
    /\ resp.route = "admin"
    /\ resp.guard = "pass"
    /\ resp.cred.t = "tok"
    /\ resp.cred.roles = NoRoles
    /\ resp.status = 403

\* the access token of the login just answered (the last but one token) is
\* the user's, carries [user.role] as stored now, and passes the guard
NewLoginTokenGood ==
    LET j == Len(tokens) - 1 IN
    /\ tokens[j].kind = "access"
    /\ tokens[j].sub = resp.cred.name
    /\ tokens[j].roles = RoleList(users[resp.cred.name].role)
    /\ GuardVerdict(Tok(j), FALSE, "none") = "pass"

C15_TokenKindsSegregated ==
    (resp.cred.t = "tok")
    => /\ (tokens[resp.cred.j].kind = "access" /\ resp.route = "refresh")
          => resp.status = 401 /\ resp.guard # "pass" /\ ~resp.ran
       /\ (tokens[resp.cred.j].kind = "refresh" /\ resp.route \in ProtectedRoutes)
          => resp.status = 401 /\ resp.guard # "pass" /\ ~resp.ran

\* an unexpired, unrevoked refresh token of an admin was presented to an
\* admin route and answered 401
C15_Witness ==
    /\ resp.cred.t = "tok"
    /\ tokens[resp.cred.j].kind = "refresh"
    /\ Unexpired(resp.cred.j)
    /\ ~Revoked(resp.cred.j)
    /\ resp.route = "admin"
    /\ resp.status = 401

\* C16: a token whose expiry has passed is answered 401 on every protected
\* route (and the refresh endpoint), handler not run, even when no blocklist
\* entry for its jti exists.
C16_ExpiredRejected ==
    ( /\ resp.cred.t = "tok"
      /\ ~Unexpired(resp.cred.j)
      /\ resp.route \in ProtectedRoutes \cup {"refresh"} )
    => /\ resp.status = 401
       /\ resp.guard = "expired"
       /\ ~resp.ran

\* an expired access token that has no blocklist entry was presented to a
\* protected route and answered 401 "Token has expired"
C16_Witness ==
    /\ resp.cred.t = "tok"
    /\ tokens[resp.cred.j].kind = "access"
    /\ ~Unexpired(resp.cred.j)
    /\ ~Revoked(resp.cred.j)
    /\ resp.route \in ProtectedRoutes
    /\ resp.status = 401
    /\ resp.msg = "Token has expired"

\* an issued access token with this roles claim that is unexpired and not
\* revoked has been presented to an admin route
LiveTokenOnAdminRoute(claim) ==
    /\ resp.route = "admin"
    /\ resp.cred.t = "tok"
    /\ tokens[resp.cred.j].kind = "access"
    /\ tokens[resp.cred.j].roles = claim
    /\ Unexpired(resp.cred.j)
    /\ ~Revoked(resp.cred.j)

\* C17: the guard decides from the token's roles claim alone, never from
\* the User store: a token issued with roles ["admin"] passes admin_required
\* while unexpired and unrevoked whatever role is stored now, a token issued
\* with ["user"] does not, an issued token's claims never change, and a
\* login issues the role stored at that moment.
C17_RolesClaimAuthoritative ==
    /\ [](LiveTokenOnAdminRoute(RoleList("admin"))
            => resp.status = 200 /\ resp.ran)
    /\ [](LiveTokenOnAdminRoute(RoleList("user"))
            => resp.status = 403 /\ ~resp.ran)
    /\ [](\A j \in Jtis :
            tokens[j].by = "login" /\ tokens[j].kind = "access"
            => tokens[j].roles = RoleList(tokens[j].urole))
    /\ [][ /\ \A j \in Jtis : tokens'[j] = tokens[j]
           /\ \A j \in (Len(tokens) + 1)..Len(tokens') :
                tokens'[j].urole = users[tokens'[j].sub].role
                  \/ ~UserFound(tokens'[j].sub) ]_vars

\* a token issued with ["admin"] was answered 200 on an admin route after
\* the stored role of its user had been changed to "user"
C17_Witness ==
    /\ LiveTokenOnAdminRoute(RoleList("admin"))
    /\ UserFound(tokens[resp.cred.j].sub)
    /\ users[tokens[resp.cred.j].sub].role = "user"
    /\ resp.status = 200

\* a login as the user whose password change is the tracked event has been
\* answered, the user still exists and the password set by that change is
\* still the stored one
LoginAfterPwChange ==
    /\ hist.ev = "pwChanged"
    /\ resp.route = "login"
    /\ resp.cred.t = "password"
    /\ resp.cred.name = tokens[hist.jti].sub
    /\ UserFound(resp.cred.name)
    /\ users[resp.cred.name].password_hash = generate_password_hash(hist.pw)

C19_StatusNeverErrors ==
    (resp.route = "status")
    => /\ resp.status = 200
       /\ resp.msg \in {"logged_in: true", "logged_in: false"}
       /\ resp.msg = "logged_in: true"
            => /\ resp.guard = "pass"
               /\ UserFound(tokens[resp.cred.j].sub)

\* a failed login: the username is unknown (no such user, or the user was
\* deleted), or the password is not the stored one
FailedLogin ==
    /\ resp.route = "login"
    /\ resp.cred.t = "password"
    /\ \/ resp.cred.name \notin UserIds
       \/ ~UserFound(resp.cred.name)
       \/ ~check_password(resp.cred.name, resp.cred.pw)

----------------------------------------------------------------------------
(* C21: a request without credential *)

\* the routes behind jwt_required() or jwt_required(refresh=True)
GuardedRoutes == ProtectedRoutes \cup {"refresh"}

\* C21: every request to a protected route that carries no credential is
\* answered 401 with error_code UNAUTHORIZED and the route's handler is not
\* executed
C21_NoCredentialUnauthorized ==
    (resp.route \in GuardedRoutes /\ resp.cred = NoToken)
        => /\ resp.status = 401
           /\ resp.code = "UNAUTHORIZED"
           /\ ~resp.ran

\* an admin request without credential was answered 401 UNAUTHORIZED
C21_Witness ==
    /\ resp.route = "admin"
    /\ resp.cred = NoToken
    /\ resp.guard = "missing"
    /\ resp.status = 401
    /\ resp.code = "UNAUTHORIZED"
    /\ ~resp.ran

----------------------------------------------------------------------------
(* C22, C23: the shape and the taxonomy of error responses *)

\* C22: every error response has a body with the fields status_code,
\* error_code and message (a body built by APIException.to_dict carries a
\* non-empty error_code; the library's own body has none)
C22_ErrorBodyShape ==
    resp.status >= 400 => resp.code # ""

\* the nine rows of the error taxonomy
Taxonomy ==
    { <<"BAD_REQUEST", 400>>, <<"VALIDATION_ERROR", 400>>,
      <<"UNAUTHORIZED", 401>>, <<"FORBIDDEN", 403>>, <<"NOT_FOUND", 404>>,
      <<"CONFLICT", 409>>, <<"TOO_MANY_REQUESTS", 429>>,
      <<"INTERNAL_SERVER_ERROR", 500>>, <<"SERVICE_UNAVAILABLE", 503>> }

\* the store could not be reached while the request was handled
StoreUnreachable == resp.fault \in {"timeout", "connfail"}

\* C23: the (error_code, status) pair of every error response whose body
\* has the application's shape is a row of the taxonomy, and an unreachable
\* store is always reported as SERVICE_UNAVAILABLE / 503
C23_TaxonomyClosed ==
    /\ (resp.status >= 400 /\ resp.code # "")
           => <<resp.code, resp.status>> \in Taxonomy
    /\ StoreUnreachable
           => /\ resp.code = "SERVICE_UNAVAILABLE"
              /\ resp.status = 503

----------------------------------------------------------------------------
(* C25: unexpected exceptions *)

\* an exception no specific handler is registered for was raised while the
\* request was handled: the store raised a plain Exception, or the role
\* check raised TypeError on a numeric roles claim
UnexpectedException ==
    \/ resp.fault = "error"
    \/ /\ resp.route = "admin"
       /\ resp.guard = "pass"
       /\ AdminCheck(resp.cred.roles) = "typeerror"

\* C25: an unexpected exception raised while handling a request is answered
\* 500 INTERNAL_SERVER_ERROR with the fixed message (never the exception's
\* text), and the application goes on to serve the next request
C25_UnexpectedExceptionGeneric500 ==
    UnexpectedException
        => /\ resp.status = 500
           /\ resp.code = "INTERNAL_SERVER_ERROR"
           /\ resp.msg = "An unexpected error occurred."
           /\ ENABLED Deliver

\* the store raised a plain Exception under an admin request, which was
\* answered with the generic 500
C25_Witness ==
    /\ resp.route = "admin"
    /\ resp.fault = "error"
    /\ resp.status = 500
    /\ resp.code = "INTERNAL_SERVER_ERROR"
    /\ resp.msg = "An unexpected error occurred."

----------------------------------------------------------------------------
(* C26: order of removal and revocation in User.delete *)

\* C26: in a deletion performed within a request that carries a token, the
\* write of that token's blocklist entry is attempted before or together
\* with the removal of the user record: in no reachable state is the record
\* already removed while the revocation is still to be attempted
C26_RevocationNotAfterRemoval ==
    \A d \in BagToSet(deleting) : users[d.user].exists

----------------------------------------------------------------------------
(* C27: deletion without a token *)

\* a deletion that found no usable token has just returned (or raised)
DeletedWithoutToken == lastSave.result \in {"skipped", "caught", "raised"}

\* C27: a user deletion performed with no token in the current context (no
\* token in the request, or no request at all) still completes: the user
\* record is removed, no error reaches the caller, and the blocklist and
\* the pending revocations are left unchanged
C27_DeleteWithoutTokenCompletes ==
    [][ (~DeletedWithoutToken /\ DeletedWithoutToken')
            => /\ \E u \in UserIds : ~users'[u].exists
               /\ lastSave'.result # "raised"
               /\ blocklist' = blocklist
               /\ deleting' = deleting ]_vars

----------------------------------------------------------------------------
(* C28: a rejected change-password *)

\* the change-password request just answered was rejected by the handler:
\* wrong current password, or a body that fails validation
ChangePasswordRejected ==
    /\ resp.route = "change_password"
    /\ \/ resp.status = 401 /\ resp.msg = "Invalid current password"
       \/ resp.status = 400 /\ resp.msg = "Invalid data"

\* C28: a rejected change-password leaves the credentials unchanged: the
\* user's password_hash is not modified, so exactly the passwords that
\* logged in before still do
C28_RejectedChangeKeepsPassword ==
    [][ ChangePasswordRejected'
            => \A u \in UserIds :
                 /\ users'[u].password_hash = users[u].password_hash
                 /\ \A pw \in Passwords \cup {WeakPassword} :
                      check_password(u, pw)' = check_password(u, pw) ]_vars

\* a change-password with a wrong current password was answered 401 and
\* the password set at registration still logs in
C28_Witness ==
    /\ ChangePasswordRejected
    /\ resp.status = 401
    /\ \E u \in UserIds : UserFound(u) /\ check_password(u, "Secret123!")

----------------------------------------------------------------------------
(* C29: the database connection loop of create_app *)

\* create_app has ended
BootEnded == boot.pc \in {"returned", "raised"}

\* the loop makes at most MAX_DB_RETRIES attempts, every attempt but the
\* last ended in ConnectionFailure or ServerSelectionTimeoutError (so the
\* loop stopped at the first success and at the first other exception), and
\* create_app raises ConnectionError exactly when no attempt succeeded
LoopAsStated ==
    /\ Len(boot.log) <= MAX_DB_RETRIES
    /\ \A k \in 1..(Len(boot.log) - 1) : boot.log[k] \in Retryable
    /\ boot.pc = "loop"
           => /\ Len(boot.log) < MAX_DB_RETRIES
              /\ \A k \in 1..Len(boot.log) : boot.log[k] \in Retryable
    /\ BootEnded
           => (boot.pc = "raised") = (\A k \in 1..Len(boot.log) : boot.log[k] # "ok")

\* C29: the connection loop terminates after at most 5 attempts, stops at
\* the first success, retries only after ConnectionFailure or
\* ServerSelectionTimeoutError, stops at the first other exception, raises
\* ConnectionError when no attempt succeeded, and so never returns an
\* application whose database is not connected
C29_BootLoop ==
    /\ LoopAsStated
    /\ boot.pc = "returned" => boot.store_up

----------------------------------------------------------------------------
(* C24: concurrent create_post requests *)

\* C24: a uniqueness violation is reported as 409 CONFLICT: whatever the
\* interleaving of create_post requests whose titles give the same slug, at
\* most one post with that slug is stored, and a request that met a post
\* with its slug is answered 409 with error_code CONFLICT (never 500)
C24_DuplicateSlugConflict ==
    /\ \A s \in BagToSet(posts) : CopiesIn(s, posts) = 1
    /\ \A r \in Requests :
         (creating[r].pc = "done" /\ creating[r].dup)
             => creating[r].status = 409 /\ creating[r].code = "CONFLICT"

----------------------------------------------------------------------------
(* C30: EventDispatcher.dispatch *)

\* C30: dispatch calls every listener registered for the event's exact
\* type, once per registration and in registration order, and a listener
\* that raises neither keeps the later listeners from being called nor
\* propagates to the caller of dispatch
C30_DispatchCallsAll ==
    calls.type # "none"
        => /\ calls.called = calls.registry[calls.type]
           /\ ~calls.propagated

====
